---- MODULE Spec2Model ----
(***************************************************************************)
(* streamgui: the request bridge between the egui render loop (App::update)*)
(* and the background tokio tasks spawned by send_req, with the view       *)
(* controller state of struct App.                                         *)
(*                                                                         *)
(* Option<T> is a sequence of length 0 (None) or 1 (Some(x)).              *)
(* Result<Vec<T>, TwitchError> is a record [ok, data, err].                *)
(* Streams and categories are named by strings (Stream.user_name,          *)
(* TwitchCategory.id); a Vec of them is a sequence of strings.             *)
(***************************************************************************)
EXTENDS Integers, Sequences, FiniteSets, TLC

VARIABLES
    app,          \* struct App (main.rs 161-176), without send/recv/streamlink_tasks
    config_file,  \* the token stored in config.toml by AppConfig::save
    chan,         \* the mpsc channel (send, recv): messages pushed and not yet received
    tasks,        \* the tokio tasks spawned by send_req that have not ended
    phase,        \* position of the render loop: "idle" between frames, "ui" inside update after the drain
    panicked,     \* the UI thread has panicked (process is gone)
    launched,     \* argv given to Command for the external player by the last step (None if it started none)
    srv,          \* the callback listener's thread (server::run): its listener and open connections
    ev,           \* history: the last step taken
    clean         \* history: there was a logout, and only results of requests dispatched before it were drained since

vars == <<app, config_file, chan, tasks, phase, panicked, launched, srv, ev, clean>>

(***************************************************************************)
(* Bounds                                                                  *)
(***************************************************************************)
\* Requests outstanding at once (task running or result not yet received) when the
\* user drives the application (Spec, SpecForced) ...
MaxOutstanding == 1
\* ... and when a driver calls send_req itself (SpecBridge).
MaxBridge == 2
\* Connections to the callback listener open at once (SpecServer).
MaxConns == 2
\* Requests outstanding at once when the user stays on a few screens and lets
\* requests overlap (SpecRelogin, SpecBrowse).
MaxOverlap == 2

(***************************************************************************)
(* Data                                                                    *)
(***************************************************************************)
None == <<>>
Some(x) == <<x>>
IsSome(o) == o # <<>>
Unwrap(o) == o[1]

Ok(x) == [ok |-> TRUE, data |-> x, err |-> ""]
Err(e) == [ok |-> FALSE, data |-> <<>>, err |-> e]

\* Bearer tokens the user can paste or the config file can hold.
Tokens == {"", "a"}
\* TwitchCategory values the platform can return (by id).
Cats == {"c1", "c2"}
\* Stream values the platform can return (by user_name).
StreamNames == {"alice", "bob"}

\* Payloads a successful platform call can return.
CatLists == {<<"c1", "c2">>}
StreamLists == {<<"alice">>, <<"alice", "bob">>}
FollowedLists == {<<"alice">>}
CategoryStreamLists(c) == IF c = "c1" THEN {<<"alice">>} ELSE {<<"bob">>}

AppView == {"Login", "Categories", "Streams", "FollowedLive", "Settings", "CategoryView"}

RequestTags == {"LoginCheck", "GetTopCategories", "GetStreams", "GetFollowedStreams", "GetCategoryStreams"}
ResultTags == {"LoginResult", "TopCategoriesResult", "StreamsResult", "GetFollowedStreamsResult",
               "GetCategoryStreamsResult"}

\* enum TwitchOption: tag, the request's argument (pagination or category id), the result's payload.
TwitchOption(tag, arg, res) == [tag |-> tag, arg |-> arg, ok |-> res.ok, data |-> res.data, err |-> res.err]
LoginCheck == TwitchOption("LoginCheck", None, Ok(<<>>))
GetTopCategories(p) == TwitchOption("GetTopCategories", p, Ok(<<>>))
GetStreams(p) == TwitchOption("GetStreams", p, Ok(<<>>))
GetFollowedStreams == TwitchOption("GetFollowedStreams", None, Ok(<<>>))
GetCategoryStreams(c) == TwitchOption("GetCategoryStreams", Some(c), Ok(<<>>))
LoginResult(b) == TwitchOption("LoginResult", None, [ok |-> b, data |-> <<>>, err |-> ""])
TopCategoriesResult(r) == TwitchOption("TopCategoriesResult", None, r)
StreamsResult(r) == TwitchOption("StreamsResult", None, r)
GetFollowedStreamsResult(r) == TwitchOption("GetFollowedStreamsResult", None, r)
GetCategoryStreamsResult(r) == TwitchOption("GetCategoryStreamsResult", None, r)

\* struct TwitchMessage
TwitchMessage(token, opt) == [token |-> token, opt |-> opt]

(***************************************************************************)
(* Platform client (twitch/mod.rs): each call's possible outcomes.         *)
(***************************************************************************)
\* UserToken::from_existing validates against the platform: the empty token
\* never validates, any other may or may not (expired, network down).
get_token(token) == IF token = "" THEN {Err("TokenError")} ELSE {Ok(<<>>), Err("TokenError")}

\* Mutant of CheckLoginMatch: the caller is told true whatever the validation gave.
CheckLoginMatchTrue(r) == TRUE

\* The match of check_login on get_token's result (twitch/mod.rs 26-33).
CheckLoginMatch(r) == IF r.ok THEN TRUE ELSE FALSE

check_login(token) == {CheckLoginMatch(r) : r \in get_token(token)}

get_top_categories(token, pagination) ==
    UNION {IF t.ok THEN {Ok(l) : l \in CatLists} \cup {Err("ClientError")} ELSE {t} : t \in get_token(token)}

get_streams(token, game_id, pagination) ==
    UNION {IF t.ok
           THEN {Ok(l) : l \in IF IsSome(game_id) THEN CategoryStreamLists(Unwrap(game_id)) ELSE StreamLists}
                \cup {Err("ClientError")}
           ELSE {t} : t \in get_token(token)}

get_followed_streams(token, pagination) ==
    UNION {IF t.ok
           THEN {Ok(l) : l \in FollowedLists} \cup {Err("ClientError"), Err("UserIdError")}
           ELSE {t} : t \in get_token(token)}

(***************************************************************************)
(* The channel (std::sync::mpsc, main.rs 180)                              *)
(***************************************************************************)
\* Mutant of ChanSend: the message goes to the front of the queue.
ChanSendFront(C, m) == <<m>> \o C

\* Sender::send: the message goes to the back of the queue.
ChanSend(C, m) == Append(C, m)

\* Mutant of try_recv: a receive that empties the queue and keeps the oldest message.
try_recv_all(C) ==
    IF C = <<>> THEN [msg |-> None, rest |-> C] ELSE [msg |-> Some(Head(C)), rest |-> <<>>]

\* Receiver::try_recv: the oldest queued message, if any, and the queue without it.
try_recv(C) ==
    IF C = <<>> THEN [msg |-> None, rest |-> C] ELSE [msg |-> Some(Head(C)), rest |-> Tail(C)]

(***************************************************************************)
(* Request bridge (main.rs 542-604)                                        *)
(*                                                                         *)
(* A task is [id, msg, ctx, old]: msg and ctx are send_req's arguments     *)
(* (ctx: whether a repaint handle was given); id and old are history: id is*)
(* the request's rank in dispatch order among the outstanding requests, old*)
(* says it was dispatched before the last logout.  A queued message        *)
(* carries, as history, the request it answers (req) and its rank in push  *)
(* order among the queued messages (rank).                                 *)
(***************************************************************************)
ReqOf(t) == [id |-> t.id, token |-> t.msg.token, tag |-> t.msg.opt.tag, arg |-> t.msg.opt.arg,
             ctx |-> t.ctx, old |-> t.old]

ReqIds(T, C) == {t.id : t \in T} \cup {C[i].req.id : i \in DOMAIN C}

Outstanding(T, C) == Cardinality(ReqIds(T, C))

\* A request whose task ended without a message, or whose message was received,
\* gives up its rank: the later requests move up.
Renum(x, id) == IF x > id THEN x - 1 ELSE x
RetireT(T, id) == {[t EXCEPT !.id = Renum(@, id)] : t \in T}
RetireC(C, id) == [i \in DOMAIN C |-> [C[i] EXCEPT !.req.id = Renum(@, id)]]
\* The messages pushed after a received one move up in push order.
Derank(C, rank) == [i \in DOMAIN C |-> [C[i] EXCEPT !.rank = Renum(@, rank)]]
NoReq == [id |-> 0, token |-> None, tag |-> "", arg |-> None, ctx |-> FALSE, old |-> FALSE]

\* Every outstanding request becomes one dispatched before the last logout.
MarkOldT(T) == {[t EXCEPT !.old = TRUE] : t \in T}
MarkOldC(C) == [i \in DOMAIN C |-> [C[i] EXCEPT !.req.old = TRUE]]

\* Mutant of send_req: the new task takes the place of the running tasks of its kind.
send_req_replace(T, C, msg, ctx) ==
    {t \in T : t.msg.opt.tag # msg.opt.tag}
        \cup {[id |-> Outstanding(T, C) + 1, msg |-> msg, ctx |-> ctx, old |-> FALSE]}

\* send_req: tokio::spawn of the task; returns the task set with the new task.
send_req(T, C, msg, ctx) ==
    T \cup {[id |-> Outstanding(T, C) + 1, msg |-> msg, ctx |-> ctx, old |-> FALSE]}

\* send_req applied to each [msg, ctx] of a sequence of calls, in order.
RECURSIVE SendAll(_, _, _)
SendAll(T, C, out) ==
    IF out = <<>> THEN T ELSE SendAll(send_req(T, C, out[1].msg, out[1].ctx), C, Tail(out))

\* Mutant of SendReqMatch: the category's streams are answered as StreamsResult.
SendReqMatchCrossed(msg, token) ==
    LET tag == msg.opt.tag
    IN  CASE tag = "LoginCheck" -> {LoginResult(r) : r \in check_login(token)}
          [] tag = "GetTopCategories" ->
                {TopCategoriesResult(r) : r \in get_top_categories(token, msg.opt.arg)}
          [] tag = "GetStreams" -> {StreamsResult(r) : r \in get_streams(token, None, msg.opt.arg)}
          [] tag = "GetFollowedStreams" ->
                {GetFollowedStreamsResult(r) : r \in get_followed_streams(token, None)}
          [] tag = "GetCategoryStreams" ->
                {StreamsResult(r) : r \in get_streams(token, msg.opt.arg, None)}
          [] OTHER -> {}

\* The match of the spawned task (main.rs 549-598): the result variants the task
\* can build for msg (empty for the catch-all arm, which sends nothing).
SendReqMatch(msg, token) ==
    LET tag == msg.opt.tag
    IN  CASE tag = "LoginCheck" -> {LoginResult(r) : r \in check_login(token)}
          [] tag = "GetTopCategories" ->
                {TopCategoriesResult(r) : r \in get_top_categories(token, msg.opt.arg)}
          [] tag = "GetStreams" -> {StreamsResult(r) : r \in get_streams(token, None, msg.opt.arg)}
          [] tag = "GetFollowedStreams" ->
                {GetFollowedStreamsResult(r) : r \in get_followed_streams(token, None)}
          [] tag = "GetCategoryStreams" ->
                {GetCategoryStreamsResult(r) : r \in get_streams(token, msg.opt.arg, None)}
          [] OTHER -> {}

\* Mutant of TaskSends: a missing token is taken as the empty token (unwrap_or_default).
TaskSendsDefaultToken(msg) == SendReqMatch(msg, IF IsSome(msg.token) THEN Unwrap(msg.token) ELSE "")

\* Mutant of TaskSends: the task reads the session token when its call is made.
TaskSendsCurrentToken(msg) == SendReqMatch(msg, app.token)

\* What the task can send for msg (main.rs 544-598): nothing without a token.
TaskSends(msg) == IF IsSome(msg.token) THEN SendReqMatch(msg, Unwrap(msg.token)) ELSE {}

\* Mutant of Repaints: the repaint is requested before the token is looked at.
RepaintsWithoutToken(t) == t.ctx

\* The repaint request at the end of the task (main.rs 600-602); the task that
\* found no token has returned before it.
Repaints(t) == IsSome(t.msg.token) /\ t.ctx

\* History record of a step. kind "task": w is "abort", "skip" or "push", ok says a
\* repaint was requested. kind "drain": w is the received variant ("empty" if none),
\* ok its success, view the view before, req and rank the received message's
\* history. kind "render": w is the input's widget, ok says the player's process
\* was spawned, view is the spawn's error ("" if none). kind "check_login": w is the
\* token given, ok the value returned, view the validation's error ("" if none).
\* kinds "bind", "accept", "serve", "conn_end": a step of the callback listener, w its outcome.
Event(kind, w, ok, view) == [kind |-> kind, w |-> w, ok |-> ok, view |-> view, req |-> NoReq, rank |-> 0]
DrainEvent(m, view) ==
    [kind |-> "drain", w |-> m.opt.tag, ok |-> m.opt.ok, view |-> view, req |-> m.req, rank |-> m.rank]

\* The spawned task, from the return of its platform call on (it is suspended in
\* the call until then): return without a token, else the push of the result onto
\* the channel and the repaint request.
TaskRun(t) ==
    /\ ~panicked
    /\ t \in tasks
    /\ IF TaskSends(t.msg) = {}
       THEN /\ tasks' = RetireT(tasks \ {t}, t.id)
            /\ chan' = RetireC(chan, t.id)
            /\ ev' = Event("task", IF IsSome(t.msg.token) THEN "skip" ELSE "abort", Repaints(t), "")
       ELSE \E resp \in TaskSends(t.msg) :
                /\ tasks' = tasks \ {t}
                /\ chan' = ChanSend(chan, [token |-> None, opt |-> resp, req |-> ReqOf(t),
                                           rank |-> Len(chan) + 1])
                /\ ev' = Event("task", "push", Repaints(t), "")
    /\ launched' = None
    /\ UNCHANGED <<app, config_file, phase, panicked, clean, srv>>

(***************************************************************************)
(* Application state (main.rs 161-252)                                     *)
(*                                                                         *)
(* The operations on struct App take the record a (or an effect e whose    *)
(* field a is the record) and return an effect: the new record, the        *)
(* send_req calls made in order, whether AppConfig::save ran, whether the  *)
(* UI thread panicked, and the argv of a player that was started.          *)
(***************************************************************************)
Call(msg, ctx) == [msg |-> msg, ctx |-> ctx]
Eff(a) == [a |-> a, out |-> <<>>, save |-> FALSE, panic |-> FALSE, launch |-> None]

\* impl Default for App, given the AppConfig loaded from the file.
AppDefault(cfg_token) ==
    [token |-> IF IsSome(cfg_token) THEN Unwrap(cfg_token) ELSE "",
     config |-> [token |-> cfg_token],
     login_pending |-> TRUE,
     current_view |-> "Login",
     error_message |-> None,
     categories |-> None,
     streams |-> None,
     followed_streams |-> None,
     focused_stream |-> None,
     focused_category |-> None,
     focused_category_streams |-> None]

\* Mutant of logout: the followed streams are not cleared.
logout_keeps_followed(e) ==
    [e EXCEPT !.a = [e.a EXCEPT !.token = "",
                                !.config = [token |-> None],
                                !.login_pending = FALSE,
                                !.current_view = "Login",
                                !.categories = None,
                                !.streams = None,
                                !.focused_stream = None,
                                !.focused_category = None,
                                !.focused_category_streams = None],
              !.save = TRUE]

\* App::logout
logout(e) ==
    [e EXCEPT !.a = [e.a EXCEPT !.token = "",
                                !.config = [token |-> None],
                                !.login_pending = FALSE,
                                !.current_view = "Login",
                                !.categories = None,
                                !.streams = None,
                                !.followed_streams = None,
                                !.focused_stream = None,
                                !.focused_category = None,
                                !.focused_category_streams = None],
              !.save = TRUE]

\* Mutant of start_stream: the url is given before the option.
start_stream_url_first(stream) == <<"https://twitch.tv/" \o stream, "--twitch-low-latency", "best">>

\* App::start_stream: the argv given to Command::new("streamlink").
start_stream(stream) == <<"--twitch-low-latency", "https://twitch.tv/" \o stream, "best">>

\* Command::spawn: the child, or the io::Error (streamlink is not installed, not
\* executable, no more processes).
spawn(argv) == {Ok(<<>>), Err("NotFound")}

\* Mutant of start_stream_task: the spawn's result is unwrapped by the caller.
start_stream_task_unwrap(child) == ~child.ok

\* The task of start_stream (main.rs 223-229) after the spawn: the result is bound
\* to _child and dropped. The value says whether the process is brought down.
start_stream_task(child) == FALSE

request_streams(e, ctx) ==
    [e EXCEPT !.out = Append(@, Call(TwitchMessage(Some(e.a.token), GetStreams(None)), ctx))]
request_categories(e, ctx) ==
    [e EXCEPT !.out = Append(@, Call(TwitchMessage(Some(e.a.token), GetTopCategories(None)), ctx))]
request_followed(e, ctx) ==
    [e EXCEPT !.out = Append(@, Call(TwitchMessage(Some(e.a.token), GetFollowedStreams), ctx))]

(***************************************************************************)
(* App::update, first part (main.rs 257-292): the match on the received    *)
(* message.                                                                *)
(***************************************************************************)
\* Mutant of OnLoginResult: the followed streams are not requested.
OnLoginResultNoFetch(e, opt) ==
    IF e.a.current_view = "Login"
    THEN IF opt.ok
         THEN [e EXCEPT !.a.error_message = None,
                        !.a.current_view = "FollowedLive",
                        !.a.config = [token |-> Some(e.a.token)],
                        !.save = TRUE]
         ELSE [e EXCEPT !.a.error_message = Some("login failed")]
    ELSE e

\* Mutant of OnLoginResult: a failed login leaves no message.
OnLoginResultFailSilently(e, opt) ==
    IF e.a.current_view = "Login"
    THEN IF opt.ok
         THEN request_followed([e EXCEPT !.a.error_message = None,
                                         !.a.current_view = "FollowedLive",
                                         !.a.config = [token |-> Some(e.a.token)],
                                         !.save = TRUE],
                               TRUE)
         ELSE e
    ELSE e

\* Mutant of OnLoginResult: the result is applied whatever the view.
OnLoginResultAnyView(e, opt) ==
    IF opt.ok
    THEN request_followed([e EXCEPT !.a.error_message = None,
                                    !.a.current_view = "FollowedLive",
                                    !.a.config = [token |-> Some(e.a.token)],
                                    !.save = TRUE],
                          TRUE)
    ELSE [e EXCEPT !.a.error_message = Some("login failed")]

\* The LoginResult arm (main.rs 260-273).
OnLoginResult(e, opt) ==
    IF e.a.current_view = "Login"
    THEN IF opt.ok
         THEN request_followed([e EXCEPT !.a.error_message = None,
                                         !.a.current_view = "FollowedLive",
                                         !.a.config = [token |-> Some(e.a.token)],
                                         !.save = TRUE],
                               TRUE)
         ELSE [e EXCEPT !.a.error_message = Some("login failed")]
    ELSE e

\* The four snapshot arms (main.rs 274-286): slot = Some(result.unwrap()).
OnTopCategoriesResult(e, opt) ==
    IF opt.ok THEN [e EXCEPT !.a.categories = Some(opt.data)] ELSE [e EXCEPT !.panic = TRUE]
\* Mutant of OnStreamsResult: the payload goes to the followed streams' slot.
OnStreamsResultWrongSlot(e, opt) ==
    IF opt.ok THEN [e EXCEPT !.a.followed_streams = Some(opt.data)] ELSE [e EXCEPT !.panic = TRUE]
OnStreamsResult(e, opt) ==
    IF opt.ok THEN [e EXCEPT !.a.streams = Some(opt.data)] ELSE [e EXCEPT !.panic = TRUE]
OnGetFollowedStreamsResult(e, opt) ==
    IF opt.ok THEN [e EXCEPT !.a.followed_streams = Some(opt.data)] ELSE [e EXCEPT !.panic = TRUE]
OnGetCategoryStreamsResult(e, opt) ==
    IF opt.ok THEN [e EXCEPT !.a.focused_category_streams = Some(opt.data)] ELSE [e EXCEPT !.panic = TRUE]

DrainMatch(e, opt) ==
    CASE opt.tag = "LoginResult" -> OnLoginResult(e, opt)
      [] opt.tag = "TopCategoriesResult" -> OnTopCategoriesResult(e, opt)
      [] opt.tag = "StreamsResult" -> OnStreamsResult(e, opt)
      [] opt.tag = "GetFollowedStreamsResult" -> OnGetFollowedStreamsResult(e, opt)
      [] opt.tag = "GetCategoryStreamsResult" -> OnGetCategoryStreamsResult(e, opt)
      [] OTHER -> e

\* One call of update up to line 292: at most one message is received and applied.
\* max bounds the requests outstanding after the step.
UpdateDrain(max) ==
    /\ ~panicked
    /\ phase = "idle"
    /\ LET got == try_recv(chan)
       IN  IF ~IsSome(got.msg)
           THEN /\ chan' = got.rest
                /\ ev' = Event("drain", "empty", FALSE, app.current_view)
                /\ phase' = "ui"
                /\ UNCHANGED <<app, config_file, tasks, panicked, clean>>
           ELSE LET m == Unwrap(got.msg)
                    e == DrainMatch(Eff(app), m.opt)
                    T1 == RetireT(tasks, m.req.id)
                    C1 == Derank(RetireC(got.rest, m.req.id), m.rank)
                IN  /\ Outstanding(T1, C1) + Len(e.out) <= max
                    /\ app' = e.a
                    /\ config_file' = IF e.save THEN e.a.config.token ELSE config_file
                    /\ chan' = C1
                    /\ tasks' = SendAll(T1, C1, e.out)
                    /\ panicked' = e.panic
                    /\ phase' = IF e.panic THEN "idle" ELSE "ui"
                    /\ ev' = DrainEvent(m, app.current_view)
                    /\ clean' = (clean /\ m.req.old)
    /\ launched' = None
    /\ UNCHANGED srv

(***************************************************************************)
(* App::update, second part (main.rs 294-539): the panels.  The user's     *)
(* input to a frame is one widget interaction [w, x] (x: the pasted token, *)
(* the category or the stream), or none.                                   *)
(***************************************************************************)
In(w, x) == [w |-> w, x |-> x]

Inputs ==
    {In(w, "") : w \in {"None", "Categories", "Streams", "Live", "Settings", "Logout", "Close", "Watch",
                        "Login", "Refresh", "Back"}}
    \cup {In("EditToken", t) : t \in Tokens}
    \cup {In("Category", c) : c \in Cats}
    \cup {In("Stream", s) : s \in StreamNames}

\* Option<Vec<T>>.iter().flatten(): the items of the list, none for None.
Items(o) == IF IsSome(o) THEN {Unwrap(o)[i] : i \in DOMAIN Unwrap(o)} ELSE {}

\* The auto login of the first frame (main.rs 297-308) is taken.
AutoLogin(a) == a.login_pending /\ a.token # ""

\* The widget of input in is drawn by this frame for the record a (after line 311).
Shown(a, in) ==
    CASE in.w = "None" -> TRUE
      [] in.w \in {"Categories", "Streams", "Live", "Settings", "Logout"} -> a.current_view # "Login"
      [] in.w \in {"Close", "Watch"} -> IsSome(a.focused_stream)
      [] in.w = "Login" -> a.current_view = "Login"
      [] in.w = "EditToken" -> a.current_view = "Login" /\ in.x # a.token
      [] in.w = "Refresh" -> a.current_view = "Streams"
      [] in.w = "Category" -> a.current_view = "Categories" /\ in.x \in Items(a.categories)
      [] in.w = "Back" -> a.current_view = "CategoryView" /\ IsSome(a.focused_category)
      [] in.w = "Stream" ->
            \/ a.current_view = "Streams" /\ in.x \in Items(a.streams)
            \/ a.current_view = "FollowedLive" /\ in.x \in Items(a.followed_streams)
            \/ /\ a.current_view = "CategoryView" /\ IsSome(a.focused_category)
               /\ in.x \in Items(a.focused_category_streams)
      [] OTHER -> FALSE

\* The side panel (main.rs 314-351).
SidePanel(e, in) ==
    IF e.a.current_view = "Login" THEN e
    ELSE CASE in.w = "Categories" -> request_categories([e EXCEPT !.a.current_view = "Categories"], TRUE)
           [] in.w = "Streams" -> request_streams([e EXCEPT !.a.current_view = "Streams"], TRUE)
           [] in.w = "Live" -> request_followed([e EXCEPT !.a.current_view = "FollowedLive"], TRUE)
           [] in.w = "Settings" -> [e EXCEPT !.a.current_view = "Settings"]
           [] in.w = "Logout" -> logout(e)
           [] OTHER -> e

\* The stream panel (main.rs 361-376).
StreamPanel(e, in) ==
    IF IsSome(e.a.focused_stream)
    THEN CASE in.w = "Close" -> [e EXCEPT !.a.focused_stream = None]
           [] in.w = "Watch" -> [e EXCEPT !.launch = Some(start_stream(Unwrap(e.a.focused_stream)))]
           [] OTHER -> e
    ELSE e

\* Mutant of SelectCategory: the clicked category is not stored.
SelectCategoryNoFocus(e, category) ==
    [e EXCEPT !.a.current_view = "CategoryView",
              !.a.focused_category_streams = None,
              !.out = Append(@, Call(TwitchMessage(Some(e.a.token), GetCategoryStreams(category)), TRUE))]

\* Mutant of SelectCategory: the streams of the category shown before are kept.
SelectCategoryKeepStreams(e, category) ==
    [e EXCEPT !.a.current_view = "CategoryView",
              !.a.focused_category = Some(category),
              !.out = Append(@, Call(TwitchMessage(Some(e.a.token), GetCategoryStreams(category)), TRUE))]

\* The click on a category of the Categories view (main.rs 452-462).
SelectCategory(e, category) ==
    [e EXCEPT !.a.current_view = "CategoryView",
              !.a.focused_category = Some(category),
              !.a.focused_category_streams = None,
              !.out = Append(@, Call(TwitchMessage(Some(e.a.token), GetCategoryStreams(category)), TRUE))]

\* Mutant of CategoryViewPanel: no way back when no category is focused.
CategoryViewPanelNoHeal(e, in) ==
    IF ~IsSome(e.a.focused_category)
    THEN e
    ELSE CASE in.w = "Back" -> [e EXCEPT !.a.current_view = "Categories"]
           [] in.w = "Stream" /\ in.x \in Items(e.a.focused_category_streams) ->
                 [e EXCEPT !.a.focused_stream = Some(in.x)]
           [] OTHER -> e

\* The CategoryView arm of the central panel (main.rs 502-535).
CategoryViewPanel(e, in) ==
    IF ~IsSome(e.a.focused_category)
    THEN [e EXCEPT !.a.current_view = "Categories"]
    ELSE CASE in.w = "Back" -> [e EXCEPT !.a.current_view = "Categories"]
           [] in.w = "Stream" /\ in.x \in Items(e.a.focused_category_streams) ->
                 [e EXCEPT !.a.focused_stream = Some(in.x)]
           [] OTHER -> e

\* The central panel (main.rs 378-538).
CentralPanel(e, in) ==
    CASE e.a.current_view = "Login" ->
            (CASE in.w = "EditToken" -> [e EXCEPT !.a.token = in.x]
               [] in.w = "Login" ->
                     [e EXCEPT !.out = Append(@, Call(TwitchMessage(Some(e.a.token), LoginCheck), TRUE))]
               [] OTHER -> e)
      [] e.a.current_view = "Categories" ->
            IF in.w = "Category" /\ in.x \in Items(e.a.categories) THEN SelectCategory(e, in.x) ELSE e
      [] e.a.current_view = "Streams" ->
            (CASE in.w = "Refresh" -> request_streams(e, TRUE)
               [] in.w = "Stream" /\ in.x \in Items(e.a.streams) -> [e EXCEPT !.a.focused_stream = Some(in.x)]
               [] OTHER -> e)
      [] e.a.current_view = "FollowedLive" ->
            IF in.w = "Stream" /\ in.x \in Items(e.a.followed_streams)
            THEN [e EXCEPT !.a.focused_stream = Some(in.x)]
            ELSE e
      [] e.a.current_view = "CategoryView" -> CategoryViewPanel(e, in)
      [] OTHER -> e

\* Lines 294-539 for the record a and the input in.
Render(a, in) ==
    IF AutoLogin(a)
    THEN [Eff([a EXCEPT !.login_pending = FALSE])
             EXCEPT !.out = <<Call(TwitchMessage(Some(a.token), LoginCheck), TRUE)>>]
    ELSE CentralPanel(StreamPanel(SidePanel(Eff([a EXCEPT !.login_pending = FALSE]), in), in), in)

\* The rest of the call of update, for an input of the set ins: the frame ends.
\* max bounds the requests outstanding after the step.
UpdateRender(max, ins) ==
    /\ ~panicked
    /\ phase = "ui"
    /\ \E in \in ins :
        /\ IF AutoLogin(app) THEN in.w = "None" ELSE Shown(app, in)
        /\ LET e == Render(app, in)
               did_logout == in.w = "Logout"
               T0 == IF did_logout THEN MarkOldT(tasks) ELSE tasks
               C0 == IF did_logout THEN MarkOldC(chan) ELSE chan
           IN  /\ Outstanding(T0, C0) + Len(e.out) <= max
               /\ app' = e.a
               /\ config_file' = IF e.save THEN e.a.config.token ELSE config_file
               /\ tasks' = SendAll(T0, C0, e.out)
               /\ chan' = C0
               /\ launched' = e.launch
               /\ clean' = (did_logout \/ clean)
               /\ \E child \in IF IsSome(e.launch) THEN spawn(Unwrap(e.launch)) ELSE {Ok(<<>>)} :
                    /\ panicked' = start_stream_task(child)
                    /\ ev' = Event("render", IF AutoLogin(app) THEN "AutoLogin" ELSE in.w,
                                   IsSome(e.launch) /\ child.ok, child.err)
    /\ phase' = "idle"
    /\ UNCHANGED srv

(***************************************************************************)
(* The callback listener (server/mod.rs), run by its own thread.           *)
(*                                                                         *)
(* srv is [listener, conns]: listener is "init" before the bind,           *)
(* "listening" in the accept loop, "dead" when the thread has ended; conns *)
(* holds a record [id, req, resp] for each connection being served, with   *)
(* the last request read from it and the response written for it.          *)
(***************************************************************************)
\* Requests a client can send: method, and path and query of the uri.
Methods == {"GET", "POST", "HEAD"}
Paths == {"/", "/token"}
Queries == {"", "code=1"}
Request(method, path, query) == [method |-> method, path |-> path, query |-> query]
Requests == {Request(m, p, q) : m \in Methods, p \in Paths, q \in Queries}
NoRequest == Request("", "", "")

\* hyper Response: status and the bytes of the body.
Response(status, body) == [status |-> status, body |-> body]
NoResponse == Response(0, "")

\* fn empty and fn full: the body without bytes, the body of one chunk.
empty == ""
full(chunk) == chunk

\* Mutant of http_server_handler: the route is matched on the path only.
http_server_handler_any_method(req) ==
    IF req.path = "/"
    THEN Response(200, full("Copy the token out of the URL above!"))
    ELSE Response(404, empty)

\* http_server_handler: Response::new has status 200 OK.
http_server_handler(req) ==
    IF req.method = "GET" /\ req.path = "/"
    THEN Response(200, full("Copy the token out of the URL above!"))
    ELSE Response(404, empty)

ServerInit == [listener |-> "init", conns |-> {}]

\* TcpListener::bind(addr).await.expect(..): the thread panics when the bind fails.
ServerBind ==
    /\ srv.listener = "init"
    /\ \E ok \in BOOLEAN :
        /\ srv' = [srv EXCEPT !.listener = IF ok THEN "listening" ELSE "dead"]
        /\ ev' = Event("bind", IF ok THEN "ok" ELSE "err", FALSE, "")
    /\ launched' = None
    /\ UNCHANGED <<app, config_file, chan, tasks, phase, panicked, clean>>

\* The Ok arm of the accept (server/mod.rs 25-40): a task is spawned for the connection.
AcceptOk(s) ==
    LET id == CHOOSE i \in 1..(Cardinality(s.conns) + 1) : \A c \in s.conns : c.id # i
    IN  [s EXCEPT !.conns = @ \cup {[id |-> id, req |-> NoRequest, resp |-> NoResponse]}]

\* Mutant of AcceptErr: the loop is left when an accept fails.
AcceptErrBreaks(s) == [s EXCEPT !.listener = "dead"]

\* The Err arm of the accept (server/mod.rs 41-43): the failure is logged.
AcceptErr(s) == s

\* One turn of the accept loop.
ServerAccept ==
    /\ srv.listener = "listening"
    /\ \/ /\ Cardinality(srv.conns) < MaxConns
          /\ srv' = AcceptOk(srv)
          /\ ev' = Event("accept", "ok", FALSE, "")
       \/ /\ srv' = AcceptErr(srv)
          /\ ev' = Event("accept", "err", FALSE, "")
    /\ launched' = None
    /\ UNCHANGED <<app, config_file, chan, tasks, phase, panicked, clean>>

\* serve_connection on connection c: a request is read, the handler's response written.
ConnServe(c) ==
    /\ c \in srv.conns
    /\ \E req \in Requests :
        srv' = [srv EXCEPT !.conns = (@ \ {c}) \cup {[c EXCEPT !.req = req, !.resp = http_server_handler(req)]}]
    /\ ev' = Event("serve", "", FALSE, "")
    /\ launched' = None
    /\ UNCHANGED <<app, config_file, chan, tasks, phase, panicked, clean>>

\* serve_connection on connection c returns, Ok when the peer closed, Err (logged)
\* on an I/O or protocol error: the connection's task ends.
ConnEnd(c) ==
    /\ c \in srv.conns
    /\ srv' = [srv EXCEPT !.conns = @ \ {c}]
    /\ \E w \in {"closed", "error"} : ev' = Event("conn_end", w, FALSE, "")
    /\ launched' = None
    /\ UNCHANGED <<app, config_file, chan, tasks, phase, panicked, clean>>

NextServer ==
    \/ ServerBind
    \/ ServerAccept
    \/ \E c \in srv.conns : ConnServe(c)
    \/ \E c \in srv.conns : ConnEnd(c)

(***************************************************************************)
(* The program                                                             *)
(***************************************************************************)
\* main: AppConfig::load reads whatever token the file holds, App::default.
Init ==
    /\ config_file \in {None} \cup {Some(t) : t \in Tokens}
    /\ app = AppDefault(config_file)
    /\ chan = <<>>
    /\ tasks = {}
    /\ phase = "idle"
    /\ panicked = FALSE
    /\ launched = None
    /\ srv = ServerInit
    /\ ev = Event("init", "", FALSE, "")
    /\ clean = FALSE

Next ==
    \/ UpdateDrain(MaxOutstanding)
    \/ UpdateRender(MaxOutstanding, Inputs)
    \/ \E t \in tasks : TaskRun(t)

Spec == Init /\ [][Next]_vars

(***************************************************************************)
(* The bridge under a driver: send_req is called with any message and with *)
(* or without a repaint handle, while the frames tick without user input.  *)
(***************************************************************************)
DriverRequests ==
    {LoginCheck, GetTopCategories(None), GetStreams(None), GetFollowedStreams, GetCategoryStreams("c1")}

\* The calls the driver makes: every request variant with a token and a handle and
\* without a token; one request without a handle; one result variant, for the
\* catch-all arm of the task's match.
DriverCalls ==
    {Call(TwitchMessage(tok, opt), TRUE) : tok \in {None, Some("a")}, opt \in DriverRequests}
    \cup {Call(TwitchMessage(Some("a"), GetStreams(None)), FALSE),
          Call(TwitchMessage(Some("a"), LoginResult(TRUE)), TRUE)}

DriverSend ==
    /\ ~panicked
    /\ Outstanding(tasks, chan) < MaxBridge
    /\ \E c \in DriverCalls :
        /\ tasks' = send_req(tasks, chan, c.msg, c.ctx)
        /\ ev' = Event("send", c.msg.opt.tag, c.ctx, "")
    /\ launched' = None
    /\ UNCHANGED <<app, config_file, chan, phase, panicked, clean, srv>>

NextBridge ==
    \/ DriverSend
    \/ UpdateDrain(MaxBridge)
    \/ UpdateRender(MaxBridge, {In("None", "")})
    \/ \E t \in tasks : TaskRun(t)

SpecBridge == Init /\ [][NextBridge]_vars

\* The callback listener's thread alone: it shares no state with the application.
SpecServer == Init /\ [][NextServer]_vars

(***************************************************************************)
(* The login screen with check_login also called directly, as a test of    *)
(* the platform client does: any token, any outcome of its validation.     *)
(***************************************************************************)
\* What the user can do on the login screen.
LoginInputs == {In("None", ""), In("Login", "")} \cup {In("EditToken", t) : t \in Tokens}

CheckLoginCall ==
    /\ ~panicked
    /\ \E token \in Tokens : \E r \in get_token(token) :
            ev' = Event("check_login", token, CheckLoginMatch(r), r.err)
    /\ launched' = None
    /\ UNCHANGED <<app, config_file, chan, tasks, phase, panicked, clean, srv>>

NextClient ==
    \/ CheckLoginCall
    \/ UpdateDrain(MaxOutstanding)
    \/ UpdateRender(MaxOutstanding, LoginInputs)
    \/ \E t \in tasks : TaskRun(t)

SpecClient == Init /\ [][NextClient]_vars

(***************************************************************************)
(* The user logs in and out and lets login checks overlap: the login       *)
(* screen and the Settings and Logout buttons.                             *)
(***************************************************************************)
ReloginInputs == LoginInputs \cup {In("Settings", ""), In("Logout", "")}

NextRelogin ==
    \/ UpdateDrain(MaxOverlap)
    \/ UpdateRender(MaxOverlap, ReloginInputs)
    \/ \E t \in tasks : TaskRun(t)

SpecRelogin == Init /\ [][NextRelogin]_vars

(***************************************************************************)
(* The user browses the categories after the auto login and lets requests  *)
(* overlap: the Categories button, the category list and the way back.     *)
(***************************************************************************)
BrowseInputs ==
    {In("None", ""), In("Categories", ""), In("Back", "")} \cup {In("Category", c) : c \in Cats}

NextBrowse ==
    \/ UpdateDrain(MaxOverlap)
    \/ UpdateRender(MaxOverlap, BrowseInputs)
    \/ \E t \in tasks : TaskRun(t)

SpecBrowse == Init /\ [][NextBrowse]_vars

(***************************************************************************)
(* The application forced into the category view with no category, as a    *)
(* test of the way back does: App::default() with current_view overwritten,*)
(* before or after a call of request_streams.                              *)
(***************************************************************************)
InitForced ==
    /\ config_file \in {None} \cup {Some(t) : t \in Tokens}
    /\ app = [AppDefault(config_file) EXCEPT !.current_view = "CategoryView"]
    /\ chan = <<>>
    /\ tasks \in {{}, SendAll({}, <<>>, request_streams(Eff(app), TRUE).out)}
    /\ phase = "idle"
    /\ panicked = FALSE
    /\ launched = None
    /\ srv = ServerInit
    /\ ev = Event("init", "", FALSE, "")
    /\ clean = FALSE

SpecForced == InitForced /\ [][Next]_vars

(***************************************************************************)
(* Properties                                                              *)
(***************************************************************************)
\* The step is the first part of a frame (try_recv and the match) ...
DrainStep == phase = "idle" /\ ev'.kind = "drain"
\* ... or its second part (the panels).
RenderStep == phase = "ui" /\ ev'.kind = "render"

\* The messages of a queue without their history.
Strip(C) == [i \in DOMAIN C |-> [token |-> C[i].token, opt |-> C[i].opt]]

SnapshotTags == {"TopCategoriesResult", "StreamsResult", "GetFollowedStreamsResult", "GetCategoryStreamsResult"}

Slot(tag) ==
    CASE tag = "TopCategoriesResult" -> "categories"
      [] tag = "StreamsResult" -> "streams"
      [] tag = "GetFollowedStreamsResult" -> "followed_streams"
      [] tag = "GetCategoryStreamsResult" -> "focused_category_streams"

SlotsEmpty(a) ==
    /\ a.categories = None
    /\ a.streams = None
    /\ a.followed_streams = None
    /\ a.focused_category_streams = None

\* C1: a request dispatched without a token never gets a message onto the channel:
\* every queued message, and every received one, answers a request that had a token.
C1_NoResultWithoutToken ==
    /\ \A i \in DOMAIN chan : IsSome(chan[i].req.token)
    /\ (ev.kind = "drain" /\ ev.w # "empty") => IsSome(ev.req.token)

\* A task without a token has just ended, and the channel is empty.
C1_Witness == ev.kind = "task" /\ ev.w = "abort" /\ chan = <<>> /\ tasks = {}

\* C2: a frame takes at most one message off the channel: its first part takes the
\* oldest one if any and leaves the others queued in order, its second part takes none.
C2_OneResultPerFrame ==
    [][/\ DrainStep => Strip(chan') = Strip(IF chan = <<>> THEN chan ELSE Tail(chan))
       /\ RenderStep => Strip(chan') = Strip(chan)]_vars

\* A frame has just received a message and left another one queued.
C2_Witness == ev.kind = "drain" /\ ev.w # "empty" /\ Len(chan) >= 1

\* C3: results are received in the order they were pushed: the queue is in push
\* order and the received message is the earliest pushed of those queued.
C3_CompletionOrder ==
    /\ \A i \in DOMAIN chan : chan[i].rank = i
    /\ (ev.kind = "drain" /\ ev.w # "empty") => ev.rank = 1

\* The received result answers a request dispatched later than the request of a
\* result that is still queued.
C3_Witness ==
    /\ ev.kind = "drain" /\ ev.w # "empty"
    /\ \E i \in DOMAIN chan : chan[i].req.id < ev.req.id

\* C4 (as claimed): after a logout the four snapshot slots stay empty as long as
\* only results of requests dispatched before the logout are drained.
C4_SlotsStayEmptyAfterLogout == clean => SlotsEmpty(app)

\* C5: right after the logout the token is empty, no token is persisted, the view
\* is Login, the four slots and both focused selections are empty.
C5_LogoutResets ==
    (ev.kind = "render" /\ ev.w = "Logout") =>
        /\ app.token = ""
        /\ app.config.token = None
        /\ config_file = None
        /\ app.current_view = "Login"
        /\ SlotsEmpty(app)
        /\ app.focused_stream = None
        /\ app.focused_category = None

\* The frame that has just ended was one with a click on Logout.
C5_Witness == ev.kind = "render" /\ ev.w = "Logout" /\ phase = "idle"

C7_CategoryViewHasCategory ==
    phase = "idle" => (app.current_view = "CategoryView" => IsSome(app.focused_category))

\* A frame has ended in the category view.
C7_Witness == phase = "idle" /\ app.current_view = "CategoryView"

\* C8: the first part of a frame that receives LoginResult(true) in the Login view
\* makes the view FollowedLive, clears the error message, stores and saves the
\* session token, and dispatches exactly one GetFollowedStreams with that token.
C8_LoginSuccess ==
    [][(DrainStep /\ ev'.w = "LoginResult" /\ ev'.ok /\ app.current_view = "Login") =>
        /\ app' = [app EXCEPT !.current_view = "FollowedLive",
                              !.error_message = None,
                              !.config = [token |-> Some(app.token)]]
        /\ config_file' = Some(app.token)
        /\ \E t \in tasks' :
            /\ t.msg = TwitchMessage(Some(app.token), GetFollowedStreams)
            /\ t.ctx
            /\ tasks' \ {t} = RetireT(tasks, ev'.req.id)
            /\ t \notin RetireT(tasks, ev'.req.id)]_vars

\* A LoginResult(true) has just been received in the Login view.
C8_Witness ==
    /\ ev.kind = "drain" /\ ev.w = "LoginResult" /\ ev.ok /\ ev.view = "Login"
    /\ phase = "ui" /\ app.current_view = "FollowedLive"

\* C9: receiving a successful snapshot result puts its payload into the matching
\* slot and changes nothing else of the application state or the saved configuration.
C9_SnapshotFrameEffect ==
    [][(DrainStep /\ ev'.w \in SnapshotTags /\ ev'.ok) =>
        /\ app' = [app EXCEPT ![Slot(ev'.w)] = Some(Head(chan).opt.data)]
        /\ config_file' = config_file
        /\ tasks' = RetireT(tasks, ev'.req.id)]_vars

\* A successful category-streams result has just been received.
C9_Witness ==
    /\ ev.kind = "drain" /\ ev.w = "GetCategoryStreamsResult" /\ ev.ok
    /\ IsSome(app.focused_category_streams) /\ IsSome(app.categories)

\* C10 (as claimed): receiving a snapshot result that carries an error does not
\* panic the UI thread and leaves the failure as the error message.
C10_ErrorResultShown ==
    (ev.kind = "drain" /\ ev.w \in SnapshotTags /\ ~ev.ok) => (~panicked /\ IsSome(app.error_message))
\* The task t of this state is still running after the step (its rank may have moved up).
Stays(t) == \E u \in tasks' : u.msg = t.msg /\ u.ctx = t.ctx /\ u.id \in {t.id, t.id - 1}

\* C11: a dispatch cancels nothing: every step but a task's own end keeps every
\* running task, a dispatch keeps every queued message, a task's end ends one task
\* only; and a received successful result puts its payload into the slot, whatever
\* was there and whichever request was dispatched first.
C11_LastDrainedWins ==
    [][/\ ev'.kind # "task" => (\A t \in tasks : Stays(t)) /\ Cardinality(tasks') >= Cardinality(tasks)
       /\ ev'.kind \in {"send", "render"} => Strip(chan') = Strip(chan)
       /\ ev'.kind = "task" => Cardinality(tasks') = Cardinality(tasks) - 1 /\ Len(chan') >= Len(chan)
       /\ (DrainStep /\ ev'.w \in SnapshotTags /\ ev'.ok)
            => app'[Slot(ev'.w)] = Some(Head(chan).opt.data)]_vars

\* Two GetStreams requests were outstanding and both results reached the channel:
\* the result of the one dispatched later has just been received and is in the slot,
\* the result of the one dispatched first, with another payload, is queued behind it.
C11_Witness ==
    /\ ev.kind = "drain" /\ ev.w = "StreamsResult" /\ ev.ok /\ ev.req.id = 2
    /\ Len(chan) = 1 /\ chan[1].opt.tag = "StreamsResult" /\ chan[1].opt.ok /\ chan[1].req.id = 1
    /\ app.streams # Some(chan[1].opt.data)
\* C12: check_login returns a boolean and nothing else: true exactly when the
\* validation of the token succeeded, false for every failure, and false for the
\* empty token; the call ends no thread.
C12_CheckLoginCollapses ==
    ev.kind = "check_login" =>
        /\ ev.ok \in BOOLEAN
        /\ ev.ok <=> ev.view = ""
        /\ ev.w = "" => ~ev.ok
        /\ ~panicked

\* check_login has just been called with the empty token and has returned false
\* for the validation's TokenError.
C12_Witness == ev.kind = "check_login" /\ ev.w = "" /\ ~ev.ok /\ ev.view = "TokenError"
\* C13: the response written for a request is 200 with the fixed text exactly when
\* the request is a GET of the path "/", and 404 with an empty body otherwise.
C13_HandlerRoutes ==
    \A c \in srv.conns :
        c.req # NoRequest =>
            IF c.req.method = "GET" /\ c.req.path = "/"
            THEN c.resp.status = 200 /\ c.resp.body = "Copy the token out of the URL above!"
            ELSE c.resp.status = 404 /\ c.resp.body = ""

\* One connection was answered 200 for GET / and another 404 for POST /.
C13_Witness ==
    \E c, d \in srv.conns :
        /\ c.req.method = "GET" /\ c.req.path = "/" /\ c.resp.status = 200
        /\ d.req.method = "POST" /\ d.req.path = "/" /\ d.resp.status = 404

\* C14: once listening, the listener stays listening: a failed accept changes
\* nothing, the end of a connection removes that connection only, serving one
\* connection leaves the others alone, and in every state the listener can accept
\* another connection and every open connection can be served.
C14_AcceptLoopGoesOn ==
    [][/\ srv.listener = "listening" => srv'.listener = "listening"
       /\ (ev'.kind = "accept" /\ ev'.w = "err") => srv' = srv
       /\ ev'.kind = "conn_end" => \E c \in srv.conns : srv'.conns = srv.conns \ {c}
       /\ ev'.kind = "serve" =>
            \E c \in srv.conns : \E d \in srv'.conns : d.id = c.id /\ srv'.conns \ {d} = srv.conns \ {c}
       /\ (srv.listener = "listening" /\ Cardinality(srv.conns) < MaxConns)
            => ENABLED (ServerAccept /\ ev'.w = "ok")
       /\ \A c \in srv.conns : ENABLED ConnServe(c)]_vars

\* A connection has just ended on an error while another one is open and has been
\* served, and the listener is still listening.
C14_Witness ==
    /\ ev.kind = "conn_end" /\ ev.w = "error"
    /\ srv.listener = "listening"
    /\ \E c \in srv.conns : c.req # NoRequest
\* C15: a frame with a click on Watch starts the player with exactly the three
\* arguments "--twitch-low-latency", "https://twitch.tv/" followed by the focused
\* stream's user_name, and "best", in this order; no other step starts a player.
C15_PlayerArgv ==
    /\ (ev.kind = "render" /\ ev.w = "Watch") =>
            /\ IsSome(launched)
            /\ Len(Unwrap(launched)) = 3
            /\ Unwrap(launched)[1] = "--twitch-low-latency"
            /\ Unwrap(launched)[2] = "https://twitch.tv/" \o Unwrap(app.focused_stream)
            /\ Unwrap(launched)[3] = "best"
    /\ IsSome(launched) => (ev.kind = "render" /\ ev.w = "Watch")

\* The player has just been started for the stream of alice.
C15_Witness ==
    /\ app.focused_stream = Some("alice")
    /\ launched = Some(<<"--twitch-low-latency", "https://twitch.tv/alice", "best">>)
\* The result variant that answers a request variant.
Mirror(tag) ==
    CASE tag = "LoginCheck" -> "LoginResult"
      [] tag = "GetTopCategories" -> "TopCategoriesResult"
      [] tag = "GetStreams" -> "StreamsResult"
      [] tag = "GetFollowedStreams" -> "GetFollowedStreamsResult"
      [] tag = "GetCategoryStreams" -> "GetCategoryStreamsResult"
      [] OTHER -> ""

\* The task t carries a token and a request variant.
Answerable(t) == IsSome(t.msg.token) /\ t.msg.opt.tag \in RequestTags

\* C16: a task with a token and a request variant ends only by pushing one message,
\* the mirror result variant of its request, behind the queued ones; a task that
\* ends without a push is not such a task; no other step ends a task or adds a
\* message; and while the process lives every running task can end (nothing
\* cancels it), which it does when its platform call returns.
C16_OneMirrorResult ==
    [][/\ (ev'.kind = "task" /\ ev'.w = "push") =>
            \E t \in tasks :
                /\ Answerable(t)
                /\ tasks' = tasks \ {t}
                /\ Len(chan') = Len(chan) + 1
                /\ Strip(SubSeq(chan', 1, Len(chan))) = Strip(chan)
                /\ chan'[Len(chan')].opt.tag = Mirror(t.msg.opt.tag)
                /\ chan'[Len(chan')].req = ReqOf(t)
       /\ (ev'.kind = "task" /\ ev'.w # "push") =>
            \E t \in tasks :
                /\ ~Answerable(t)
                /\ tasks' = RetireT(tasks \ {t}, t.id)
                /\ Strip(chan') = Strip(chan)
       /\ ev'.kind # "task" => (\A t \in tasks : Stays(t)) /\ Len(chan') <= Len(chan)
       /\ ~panicked => \A t \in tasks : ENABLED TaskRun(t)]_vars

\* The task of a GetCategoryStreams request has just pushed its
\* GetCategoryStreamsResult behind the LoginResult of a LoginCheck.
C16_Witness ==
    /\ ev.kind = "task" /\ ev.w = "push" /\ Len(chan) = 2
    /\ chan[1].req.tag = "LoginCheck" /\ chan[1].opt.tag = "LoginResult"
    /\ chan[2].req.tag = "GetCategoryStreams" /\ chan[2].opt.tag = "GetCategoryStreamsResult"
\* The tasks spawned by this step, a part of a frame.
NewTasks ==
    IF ev'.kind = "drain" /\ ev'.w # "empty"
    THEN tasks' \ RetireT(tasks, ev'.req.id)
    ELSE tasks' \ (tasks \cup MarkOldT(tasks))

\* C17: a request carries the session token of the moment of its dispatch; no
\* later step of the render loop (logout, edit of the token) changes the message of
\* a running task; the result a task pushes is one the platform gives for the
\* token the request carries; and a task's step changes nothing of the application
\* state or the saved configuration.
C17_TokenCapturedAtDispatch ==
    [][/\ ev'.kind \in {"drain", "render"} =>
            /\ \A u \in NewTasks : u.msg.token = Some(app.token)
            /\ \A t \in tasks : Stays(t)
       /\ (ev'.kind = "task" /\ ev'.w = "push") =>
            \E t \in tasks :
                /\ tasks' = tasks \ {t}
                /\ chan'[Len(chan')].req.token = t.msg.token
                /\ chan'[Len(chan')].opt \in SendReqMatch(t.msg, Unwrap(t.msg.token))
       /\ ev'.kind = "task" => (app' = app /\ config_file' = config_file)]_vars

\* A task has just pushed a successful result for the token "a" it was dispatched
\* with, although the session token has been emptied since.
C17_Witness ==
    /\ ev.kind = "task" /\ ev.w = "push" /\ Len(chan) = 1
    /\ chan[1].req.token = Some("a") /\ chan[1].opt.ok
    /\ app.token = ""
\* The step is the end of the task t.
Ended(t) ==
    /\ ev'.kind = "task"
    /\ IF ev'.w = "push" THEN tasks' = tasks \ {t} ELSE tasks' = RetireT(tasks \ {t}, t.id)

C19_SelectCategory ==
    [][(RenderStep /\ ev'.w = "Category") =>
        \E c \in Items(app.categories) :
            /\ app.current_view = "Categories"
            /\ app' = [app EXCEPT !.current_view = "CategoryView",
                                  !.focused_category = Some(c),
                                  !.focused_category_streams = None]
            /\ config_file' = config_file
            /\ \E u \in tasks' :
                /\ NewTasks = {u}
                /\ u.msg = TwitchMessage(Some(app.token), GetCategoryStreams(c))
            /\ Cardinality(tasks') = Cardinality(tasks) + 1
            /\ chan' = chan]_vars

\* The category c2 has just been selected: it is focused in the category view, no
\* streams are held for it and the request for its streams is in flight.
C19_Witness ==
    /\ ev.kind = "render" /\ ev.w = "Category"
    /\ app.current_view = "CategoryView" /\ app.focused_category = Some("c2")
    /\ app.focused_category_streams = None
    /\ \E t \in tasks : t.msg.opt = GetCategoryStreams("c2")
\* The step receives a LoginResult(true) in the Login view.
LoginApplied == DrainStep /\ ev'.w = "LoginResult" /\ ev'.ok /\ app.current_view = "Login"

\* C20: receiving LoginResult(false) in the Login view sets the error message to
\* "login failed" and changes nothing else (the view stays Login), writes no
\* configuration and dispatches nothing; and an error message that is set is kept
\* by every step that is not the receipt of a LoginResult(true) in the Login view.
C20_LoginFailure ==
    [][/\ (DrainStep /\ ev'.w = "LoginResult" /\ ~ev'.ok /\ app.current_view = "Login") =>
            /\ app' = [app EXCEPT !.error_message = Some("login failed")]
            /\ app'.current_view = "Login"
            /\ config_file' = config_file
            /\ tasks' = RetireT(tasks, ev'.req.id)
       /\ (IsSome(app.error_message) /\ ~LoginApplied) => app'.error_message = app.error_message]_vars

\* A login has failed and, frames later, the user has edited the token box: the
\* message is still there.
C20_Witness ==
    /\ ev.kind = "render" /\ ev.w = "EditToken"
    /\ app.current_view = "Login" /\ app.error_message = Some("login failed")
\* C21 (as claimed): a frame whose player could not be spawned brings the process down.
C21_SpawnFailureCrashes ==
    (ev.kind = "render" /\ ev.w = "Watch" /\ ev.view # "") => panicked

\* C21 (amended): a frame with a click on Watch whose spawn fails ends like one
\* whose spawn succeeds: the process lives, the application state, the saved
\* configuration, the tasks and the channel are unchanged, no error message is
\* set, and the next frame can start.
C21_SpawnFailureDropped ==
    /\ [][(RenderStep /\ ev'.w = "Watch") =>
            /\ ~panicked'
            /\ app' = app /\ config_file' = config_file /\ tasks' = tasks /\ chan' = chan
            /\ launched' = Some(start_stream(Unwrap(app.focused_stream)))]_vars
    /\ []((ev.kind = "render" /\ ev.w = "Watch" /\ ev.view # "") => ENABLED UpdateDrain(MaxOutstanding))

\* The spawn of the player for a focused stream has just failed and the process lives.
C21_Witness ==
    /\ ev.kind = "render" /\ ev.w = "Watch" /\ ~ev.ok /\ ev.view = "NotFound"
    /\ IsSome(app.focused_stream) /\ ~panicked /\ phase = "idle"
\* C22 (as claimed): receiving the result of a login check dispatched before the
\* last logout keeps the view, writes no configuration and dispatches nothing.
C22_OldLoginResultInert ==
    [][(DrainStep /\ ev'.w = "LoginResult" /\ ev'.req.old) =>
        /\ app'.current_view = app.current_view
        /\ app'.config = app.config /\ config_file' = config_file
        /\ tasks' = RetireT(tasks, ev'.req.id)]_vars
\* C23 (as claimed): when a LoginResult(true) is applied, the token written to the
\* configuration and carried by the followed-streams request is the token the
\* login check was dispatched with.
C23_ValidatedTokenSaved ==
    [][LoginApplied =>
        /\ app'.config.token = ev'.req.token
        /\ config_file' = ev'.req.token
        /\ \A u \in NewTasks : u.msg.token = ev'.req.token]_vars
\* C24 (as claimed): between frames, streams held for the focused category are a
\* result the platform gives for the category that is focused.
C24_StreamsOfFocusedCategory ==
    (phase = "idle" /\ IsSome(app.focused_category_streams)) =>
        /\ IsSome(app.focused_category)
        /\ Unwrap(app.focused_category_streams) \in CategoryStreamLists(Unwrap(app.focused_category))
\* C25: receiving a LoginResult, true or false, in a view other than Login changes
\* nothing of the application state (view, session token, configuration, error
\* message, slots) or of the saved configuration, spawns no task and does not
\* bring the process down; the frame goes on to its panels.
C25_LoginResultElsewhereInert ==
    [][(DrainStep /\ ev'.w = "LoginResult" /\ app.current_view # "Login") =>
        /\ app' = app
        /\ config_file' = config_file
        /\ tasks' = RetireT(tasks, ev'.req.id)
        /\ ~panicked' /\ phase' = "ui"]_vars

\* A LoginResult(true) has just been received in the Settings view, which the user
\* opened after an earlier login check had let them in.
C25_Witness ==
    /\ ev.kind = "drain" /\ ev.w = "LoginResult" /\ ev.ok /\ ev.view = "Settings"
    /\ app.current_view = "Settings" /\ phase = "ui"
====
